---- MODULE Spec2Model ----
(***************************************************************************)
(* A model of src/puzzle.py: PuzzlePiece (rotate, reset_rotations,         *)
(* verify_piece), Puzzle (_load_pieces_to_grid, get_piece, _set_piece,     *)
(* check_piece_placement, swap_pieces, next_piece_coordinate, solve_piece, *)
(* solve), PuzzleIterator and dump_grid.                                   *)
(*                                                                         *)
(* Piece objects are identified by their position in the constructor's     *)
(* input list (1..count); object 0 is the zero_piece that pads the grid.   *)
(* The grid is a list of rows of references (object indices), as the       *)
(* Python list of lists is; Python counts from 0 and TLA+ from 1, so       *)
(* Python's grid[i][j] is grid[i + 1][j + 1] here and the state of object  *)
(* k is pieces[k + 1].                                                     *)
(***************************************************************************)
EXTENDS Integers, Sequences, FiniteSets, TLC

\* ------------------------------------------------------------------ bounds
\* Largest grid side explored by the solver specification.
MaxN == 2
\* Edge labels are 0..MaxLabel (0 is also the zero_piece's label).
MaxLabel == 1
\* A piece handed to the solver has at most MaxMarked edges with a label other
\* than 0 (in a 2x2 puzzle every piece is a corner: two of its edges lie on the rim).
MaxMarked == 2
\* Longest piece list handed to the constructor in the construction specification.
MaxCount == 10
\* Longest sequence of calls made on a standalone piece.
MaxCalls == 7

\* ------------------------------------------------------- program constants
\* rotate() refuses a counted rotation once _rotate_count has this value.
MAX_ROTATIONS == 3
\* reset_rotations turns the piece 4 - _rotate_count times; range(4) orientations.
FULL_TURN == 4

None == "None"
Labels == 0 .. MaxLabel
AllSideTuples == Labels \X Labels \X Labels \X Labels
SideTuples == {s \in AllSideTuples : Cardinality({i \in 1 .. 4 : s[i] # 0}) <= MaxMarked}
\* the sides of the fixture piece of src/tests/test_puzzle_piece_class.py
PIECE_SIDES == <<1, 2, 3, 4>>

VARIABLES
    pieces,     \* piece objects: <<zero_piece, pieces[0], pieces[1], ...>>, each
                \* [id, top, right, bottom, left, rotate_count]
    sides,      \* the constructor's input: position -> <<top, right, bottom, left>>
    grid_size,  \* Puzzle.grid_size (None before _load_pieces_to_grid sets it)
    grid,       \* Puzzle._puzzle_grid: rows of object indices (<<>> before it is built)
    ctl,        \* where the program is: [pc, idx], idx the loop index of _load_pieces_to_grid
    stack,      \* the solve_piece frames, innermost last
    ret,        \* <<the last solve_piece return>> until the caller takes it, else <<>>
    result,     \* how solve() ended, or None
    log         \* calls made on a standalone piece: <<[op, pre, raised]>>

vars == <<pieces, sides, grid_size, grid, ctl, stack, ret, result, log>>

\* ------------------------------------------------------------- PuzzlePiece
\* PuzzlePiece.__init__
PuzzlePiece(piece_id, s) ==
    [id |-> piece_id, top |-> s[1], right |-> s[2], bottom |-> s[3], left |-> s[4],
     rotate_count |-> 0]

Edges(p) == <<p.top, p.right, p.bottom, p.left>>

\* The four assignments of rotate(): _ = left; left = bottom; bottom = right;
\* right = top; top = _.
turn_wrong_way(p) ==
    [p EXCEPT !.left = p.top, !.top = p.right, !.right = p.bottom, !.bottom = p.left]

turn(p) ==
    [p EXCEPT !.left = p.bottom, !.bottom = p.right, !.right = p.top, !.top = p.left]

\* PuzzlePiece.rotate: [raised, piece]
rotate_mutate_first(p, internal_rotation) ==
    IF ~internal_rotation /\ p.rotate_count = MAX_ROTATIONS
    THEN [raised |-> TRUE, piece |-> turn(p)]
    ELSE [raised |-> FALSE,
          piece  |-> IF internal_rotation THEN turn(p)
                     ELSE [turn(p) EXCEPT !.rotate_count = p.rotate_count + 1]]

rotate_forgets_count(p, internal_rotation) ==
    IF ~internal_rotation /\ p.rotate_count = MAX_ROTATIONS
    THEN [raised |-> TRUE, piece |-> p]
    ELSE [raised |-> FALSE, piece |-> turn(p)]

rotate(p, internal_rotation) ==
    IF ~internal_rotation /\ p.rotate_count = MAX_ROTATIONS
    THEN [raised |-> TRUE, piece |-> p]
    ELSE [raised |-> FALSE,
          piece  |-> IF internal_rotation THEN turn(p)
                     ELSE [turn(p) EXCEPT !.rotate_count = p.rotate_count + 1]]

\* for i in range(k): self.rotate(internal_rotation=True)
RECURSIVE rotate_internal_times(_, _)
rotate_internal_times(p, k) ==
    IF k <= 0 THEN p ELSE rotate_internal_times(rotate(p, TRUE).piece, k - 1)

\* PuzzlePiece.reset_rotations
reset_rotations_back_by_count(p) ==
    [rotate_internal_times(p, p.rotate_count) EXCEPT !.rotate_count = 0]

reset_rotations(p) ==
    [rotate_internal_times(p, FULL_TURN - p.rotate_count) EXCEPT !.rotate_count = 0]

\* PuzzlePiece.verify_piece
verify_piece(self, piece, side_of_second_piece) ==
    CASE side_of_second_piece = "TOP"    -> self.top = piece.bottom
      [] side_of_second_piece = "RIGHT"  -> self.right = piece.left
      [] side_of_second_piece = "BOTTOM" -> self.bottom = piece.top
      [] side_of_second_piece = "LEFT"   -> self.left = piece.right

\* ------------------------------------------------------------------ Puzzle
\* int(math.sqrt(len(pieces)))
RECURSIVE isqrt_from(_, _)
isqrt_from(c, k) == IF (k + 1) * (k + 1) > c THEN k ELSE isqrt_from(c, k + 1)

int_sqrt(c) == isqrt_from(c, 0)

\* [[zero_piece] * (grid_size + 2) for _ in range(grid_size + 2)]
zero_grid(gs) == [i \in 1 .. gs + 2 |-> [j \in 1 .. gs + 2 |-> 0]]

\* the index pairs grid[i][j] that exist, i and j counted from 0
Cells(g) == {c \in (0 .. Len(g) - 1) \X (0 .. Len(g) - 1) : TRUE}

\* grid[i][j], i and j counted from 0
cell(g, i, j) == g[i + 1][j + 1]

\* the state of the piece object with index obj
object(ps, obj) == ps[obj + 1]

Interior(gs) == (0 .. gs - 1) \X (0 .. gs - 1)

\* Puzzle.get_piece: the object index held at interior coordinate (row, column)
get_piece(g, row, column) == cell(g, row + 1, column + 1)

\* Puzzle._set_piece
set_piece(g, row, column, piece) == [g EXCEPT ![row + 2][column + 2] = piece]

\* Puzzle.check_piece_placement
check_piece_placement_top_only(g, ps, row, column) ==
    verify_piece(object(ps, get_piece(g, row, column)),
                 object(ps, get_piece(g, row - 1, column)), "TOP")

check_piece_placement(g, ps, row, column) ==
    /\ verify_piece(object(ps, get_piece(g, row, column)),
                    object(ps, get_piece(g, row - 1, column)), "TOP")
    /\ verify_piece(object(ps, get_piece(g, row, column)),
                    object(ps, get_piece(g, row, column - 1)), "LEFT")

\* Puzzle.swap_pieces
swap_pieces_copy(g, row1, column1, row2, column2) ==
    set_piece(g, row1, column1, get_piece(g, row2, column2))

swap_pieces(g, row1, column1, row2, column2) ==
    LET first_piece == get_piece(g, row1, column1)
        g1 == set_piece(g, row1, column1, get_piece(g, row2, column2))
    IN  set_piece(g1, row2, column2, first_piece)

\* the column wraps one step late: the right border column counts as a cell
next_piece_coordinate_past_edge(gs, row, column) ==
    LET column1 == column + 1
        row2    == IF column1 = gs + 1 THEN row + 1 ELSE row
        column2 == IF column1 = gs + 1 THEN 0 ELSE column1
    IN  [raised |-> row2 = gs, coordinate |-> <<row2, column2>>]

\* the end of the grid is announced one row early
next_piece_coordinate_ends_early(gs, row, column) ==
    LET column1 == column + 1
        row2    == IF column1 = gs THEN row + 1 ELSE row
        column2 == IF column1 = gs THEN 0 ELSE column1
    IN  [raised |-> row2 = gs - 1, coordinate |-> <<row2, column2>>]

\* Puzzle.next_piece_coordinate: [raised, coordinate], raised for EndOfGridReached
next_piece_coordinate(gs, row, column) ==
    LET column1 == column + 1
        row2    == IF column1 = gs THEN row + 1 ELSE row
        column2 == IF column1 = gs THEN 0 ELSE column1
    IN  [raised |-> row2 = gs, coordinate |-> <<row2, column2>>]

\* _load_pieces_to_grid, one pass of the loop body (lines 125-128), idx counted
\* from 0: [raised, grid], the grid with pieces[idx] stored, or raised (IndexError,
\* the grid untouched) when the row is outside the backing lists
place_piece_column_major(g, gs, idx) ==
    LET piece_row    == idx % gs
        piece_column == idx \div gs
    IN  IF <<1 + piece_row, 1 + piece_column>> \in Cells(g)
        THEN [raised |-> FALSE,
              grid   |-> [g EXCEPT ![2 + piece_row][2 + piece_column] = idx + 1]]
        ELSE [raised |-> TRUE, grid |-> g]

place_piece(g, gs, idx) ==
    LET piece_row    == idx \div gs
        piece_column == idx % gs
    IN  IF <<1 + piece_row, 1 + piece_column>> \in Cells(g)
        THEN [raised |-> FALSE,
              grid   |-> [g EXCEPT ![2 + piece_row][2 + piece_column] = idx + 1]]
        ELSE [raised |-> TRUE, grid |-> g]

\* the whole loop over enumerate(pieces), from position idx on
RECURSIVE load_from(_, _, _, _)
load_from(g, gs, idx, count) ==
    IF idx >= count THEN [raised |-> FALSE, grid |-> g]
    ELSE LET r == place_piece(g, gs, idx)
         IN  IF r.raised THEN r ELSE load_from(r.grid, gs, idx + 1, count)

\* Puzzle._load_pieces_to_grid (lines 119-128): [raised, grid]
load_pieces_to_grid(count) ==
    load_from(zero_grid(int_sqrt(count)), int_sqrt(count), 0, count)

\* the piece objects alive once the grid exists: the input list and zero_piece
zero_piece == PuzzlePiece(0, <<0, 0, 0, 0>>)

\* the caller's list of pieces, piece i constructed with id i
input_pieces(s) == [k \in 1 .. Len(s) |-> PuzzlePiece(k, s[k])]

piece_objects(s) == <<zero_piece>> \o input_pieces(s)

\* ------------------------------------------------------------- solve_piece
\* A frame of solve_piece as it starts (lines 207-209). entry_grid records the
\* grid the call started from, entry_fresh the objects that then had
\* _rotate_count 0 and their construction-time edges, probed the objects that
\* solving_piece has named so far (lines 209 and 239), in order.
Fresh(ps, s) ==
    {obj \in 1 .. Len(ps) - 1 : object(ps, obj) = PuzzlePiece(obj, s[obj])}

Frame(g, ps, s, solving_row, solving_column) ==
    [row |-> solving_row, col |-> solving_column,
     next_swap_piece |-> <<solving_row, solving_column>>,
     solving_piece |-> get_piece(g, solving_row, solving_column),
     idx |-> 0, pc |-> "check",
     entry_grid |-> g, entry_fresh |-> Fresh(ps, s),
     probed |-> <<get_piece(g, solving_row, solving_column)>>]

Top == stack[Len(stack)]

Caller == SubSeq(stack, 1, Len(stack) - 1)

SetTop(f) == [stack EXCEPT ![Len(stack)] = f]

Running == ctl.pc = "solving" /\ stack # <<>>

Returned(f, value) ==
    [value |-> value, row |-> f.row, col |-> f.col,
     entry_grid |-> f.entry_grid, entry_fresh |-> f.entry_fresh]

\* an exception leaves solve_piece and solve: no frame is left
Escapes(exception) ==
    /\ stack' = <<>>
    /\ ret' = <<>>
    /\ result' = exception
    /\ ctl' = [ctl EXCEPT !.pc = "done"]

\* solve(), line 248: the call solve_piece(0, 0)
solve ==
    /\ ctl.pc = "built"
    /\ ctl' = [ctl EXCEPT !.pc = "solving"]
    /\ stack' = <<Frame(grid, pieces, sides, 0, 0)>>
    /\ UNCHANGED <<pieces, sides, grid_size, grid, ret, result, log>>

\* line 212 is false: line 226 breaks on the fourth orientation, else go on to rotate
check_fails_rotates_again ==
    /\ Running /\ Top.pc = "check"
    /\ ~check_piece_placement(grid, pieces, Top.row, Top.col)
    /\ stack' = SetTop([Top EXCEPT !.pc = IF Top.idx = FULL_TURN THEN "reset" ELSE "rotate"])
    /\ UNCHANGED <<pieces, sides, grid_size, grid, ctl, ret, result, log>>

check_fails ==
    /\ Running /\ Top.pc = "check"
    /\ ~check_piece_placement(grid, pieces, Top.row, Top.col)
    /\ stack' = SetTop([Top EXCEPT !.pc = IF Top.idx = FULL_TURN - 1 THEN "reset" ELSE "rotate"])
    /\ UNCHANGED <<pieces, sides, grid_size, grid, ctl, ret, result, log>>

\* lines 212-214: the placement holds at the last cell, return True
check_last_cell ==
    /\ Running /\ Top.pc = "check"
    /\ check_piece_placement(grid, pieces, Top.row, Top.col)
    /\ Top.row + 1 = grid_size /\ Top.col + 1 = grid_size
    /\ stack' = Caller
    /\ ret' = <<Returned(Top, TRUE)>>
    /\ UNCHANGED <<pieces, sides, grid_size, grid, ctl, result, log>>

\* lines 212-217: the placement holds elsewhere, call solve_piece on the next coordinate
check_recurse ==
    /\ Running /\ Top.pc = "check"
    /\ check_piece_placement(grid, pieces, Top.row, Top.col)
    /\ ~(Top.row + 1 = grid_size /\ Top.col + 1 = grid_size)
    /\ LET nxt == next_piece_coordinate(grid_size, Top.row, Top.col)
       IN  IF nxt.raised
           THEN /\ Escapes("EndOfGridReached")
                /\ UNCHANGED <<pieces, sides, grid_size, grid, log>>
           ELSE /\ stack' = Append(SetTop([Top EXCEPT !.pc = "call"]),
                                   Frame(grid, pieces, sides, nxt.coordinate[1], nxt.coordinate[2]))
                /\ UNCHANGED <<pieces, sides, grid_size, grid, ctl, ret, result, log>>

\* the failed recursive call is answered with another pass of the same check
call_failed_probes_again ==
    /\ Running /\ Top.pc = "call" /\ ret # <<>> /\ ~ret[1].value
    /\ stack' = SetTop([Top EXCEPT !.pc = "check"])
    /\ ret' = <<>>
    /\ UNCHANGED <<pieces, sides, grid_size, grid, ctl, result, log>>

\* lines 217-222: the recursive call returned False, break out of the for loop
call_failed ==
    /\ Running /\ Top.pc = "call" /\ ret # <<>> /\ ~ret[1].value
    /\ stack' = SetTop([Top EXCEPT !.pc = "reset"])
    /\ ret' = <<>>
    /\ UNCHANGED <<pieces, sides, grid_size, grid, ctl, result, log>>

\* lines 217, 223-224: the recursive call returned True, return True
call_succeeded_after_reset ==
    /\ Running /\ Top.pc = "call" /\ ret # <<>> /\ ret[1].value
    /\ pieces' = [pieces EXCEPT ![Top.solving_piece + 1] =
                                 reset_rotations(object(pieces, Top.solving_piece))]
    /\ stack' = Caller
    /\ ret' = <<Returned(Top, TRUE)>>
    /\ UNCHANGED <<sides, grid_size, grid, ctl, result, log>>

call_succeeded ==
    /\ Running /\ Top.pc = "call" /\ ret # <<>> /\ ret[1].value
    /\ stack' = Caller
    /\ ret' = <<Returned(Top, TRUE)>>
    /\ UNCHANGED <<pieces, sides, grid_size, grid, ctl, result, log>>

\* line 229: solving_piece.rotate(), then the next pass of the for loop
rotate_solving_piece ==
    /\ Running /\ Top.pc = "rotate"
    /\ LET r == rotate(object(pieces, Top.solving_piece), FALSE)
       IN  IF r.raised
           THEN /\ Escapes("MaxRotationsReached")
                /\ UNCHANGED <<pieces, sides, grid_size, grid, log>>
           ELSE /\ pieces' = [pieces EXCEPT ![Top.solving_piece + 1] = r.piece]
                /\ stack' = SetTop([Top EXCEPT !.idx = Top.idx + 1, !.pc = "check"])
                /\ UNCHANGED <<sides, grid_size, grid, ctl, ret, result, log>>

\* line 231: solving_piece.reset_rotations()
reset_solving_piece ==
    /\ Running /\ Top.pc = "reset"
    /\ pieces' = [pieces EXCEPT ![Top.solving_piece + 1] =
                                 reset_rotations(object(pieces, Top.solving_piece))]
    /\ stack' = SetTop([Top EXCEPT !.pc = "unswap"])
    /\ UNCHANGED <<sides, grid_size, grid, ctl, ret, result, log>>

\* line 232: self.swap_pieces(*next_swap_piece, solving_row, solving_column)
swap_back_skipped ==
    /\ Running /\ Top.pc = "unswap"
    /\ stack' = SetTop([Top EXCEPT !.pc = "advance"])
    /\ UNCHANGED <<pieces, sides, grid_size, grid, ctl, ret, result, log>>

swap_back ==
    /\ Running /\ Top.pc = "unswap"
    /\ grid' = swap_pieces(grid, Top.next_swap_piece[1], Top.next_swap_piece[2], Top.row, Top.col)
    /\ stack' = SetTop([Top EXCEPT !.pc = "advance"])
    /\ UNCHANGED <<pieces, sides, grid_size, ctl, ret, result, log>>

\* lines 233-234: next_swap_piece advances to a coordinate of the grid
advance_swap_piece ==
    /\ Running /\ Top.pc = "advance"
    /\ LET nxt == next_piece_coordinate(grid_size, Top.next_swap_piece[1], Top.next_swap_piece[2])
       IN  /\ ~nxt.raised
           /\ stack' = SetTop([Top EXCEPT !.next_swap_piece = nxt.coordinate, !.pc = "swap"])
    /\ UNCHANGED <<pieces, sides, grid_size, grid, ctl, ret, result, log>>

\* lines 233-236: next_piece_coordinate raises EndOfGridReached, return False
candidates_exhausted ==
    /\ Running /\ Top.pc = "advance"
    /\ next_piece_coordinate(grid_size, Top.next_swap_piece[1], Top.next_swap_piece[2]).raised
    /\ stack' = Caller
    /\ ret' = <<Returned(Top, FALSE)>>
    /\ UNCHANGED <<pieces, sides, grid_size, grid, ctl, result, log>>

swap_in_candidate_keeps_piece ==
    /\ Running /\ Top.pc = "swap"
    /\ LET g == swap_pieces(grid, Top.row, Top.col, Top.next_swap_piece[1], Top.next_swap_piece[2])
       IN  /\ grid' = g
           /\ stack' = SetTop([Top EXCEPT !.idx = 0, !.pc = "check",
                                          !.probed = Append(@, get_piece(g, Top.row, Top.col))])
    /\ UNCHANGED <<pieces, sides, grid_size, ctl, ret, result, log>>

\* lines 238-239: swap the next candidate in, and start the for loop again
swap_in_candidate ==
    /\ Running /\ Top.pc = "swap"
    /\ LET g == swap_pieces(grid, Top.row, Top.col, Top.next_swap_piece[1], Top.next_swap_piece[2])
       IN  /\ grid' = g
           /\ stack' = SetTop([Top EXCEPT !.solving_piece = get_piece(g, Top.row, Top.col),
                                          !.idx = 0, !.pc = "check",
                                          !.probed = Append(@, get_piece(g, Top.row, Top.col))])
    /\ UNCHANGED <<pieces, sides, grid_size, ctl, ret, result, log>>

\* solve(), lines 248-251: the value solve_piece(0, 0) returned
solve_returns ==
    /\ ctl.pc = "solving" /\ stack = <<>> /\ ret # <<>>
    /\ result' = IF ret[1].value THEN "True" ELSE "False"
    /\ ctl' = [ctl EXCEPT !.pc = "done"]
    /\ UNCHANGED <<pieces, sides, grid_size, grid, stack, ret, log>>

\* A Puzzle built from n*n freshly constructed pieces, n in 1..MaxN
Init ==
    \E n \in 1 .. MaxN :
      \E s \in [1 .. n * n -> SideTuples] :
        /\ sides = s
        /\ pieces = piece_objects(s)
        /\ grid_size = int_sqrt(n * n)
        /\ grid = load_pieces_to_grid(n * n).grid
        /\ ctl = [pc |-> "built", idx |-> n * n]
        /\ stack = <<>>
        /\ ret = <<>>
        /\ result = None
        /\ log = <<>>

\* ---------------------------------------------- PuzzleIterator, dump_grid
\* a __next__ that stops as soon as the advance raises, the old cell unyielded
RECURSIVE iterate_from_drops_last(_, _, _, _)
iterate_from_drops_last(g, gs, row, column) ==
    LET nxt == next_piece_coordinate(gs, row, column)
    IN  IF nxt.raised THEN <<>>
        ELSE <<get_piece(g, row, column)>> \o
             iterate_from_drops_last(g, gs, nxt.coordinate[1], nxt.coordinate[2])

\* PuzzleIterator.__next__ until StopIteration, started at (row, column): the
\* objects it yields
RECURSIVE iterate_from(_, _, _, _)
iterate_from(g, gs, row, column) ==
    LET nxt == next_piece_coordinate(gs, row, column)
    IN  <<get_piece(g, row, column)>> \o
        (IF nxt.raised THEN <<>>
         ELSE iterate_from(g, gs, nxt.coordinate[1], nxt.coordinate[2]))

\* iter(self): a new PuzzleIterator starts at (0, 0)
iterate(g, gs) == iterate_from(g, gs, 0, 0)

\* Puzzle.dump_grid: the "<id>,<rotations>" entries, in order, that "; " joins
dump_grid(g, gs, ps) ==
    [k \in 1 .. Len(iterate(g, gs)) |->
        <<object(ps, iterate(g, gs)[k]).id, object(ps, iterate(g, gs)[k]).rotate_count>>]

\* ------------------------------------------------- Puzzle.__init__, stepwise
\* lines 109-123: zero_piece, grid_size and the padded grid of zero_piece
new_puzzle ==
    /\ ctl.pc = "new"
    /\ pieces' = <<zero_piece>> \o pieces
    /\ grid_size' = int_sqrt(Len(sides))
    /\ grid' = zero_grid(int_sqrt(Len(sides)))
    /\ ctl' = [pc |-> IF Len(sides) = 0 THEN "built" ELSE "loading", idx |-> 0]
    /\ UNCHANGED <<sides, stack, ret, result, log>>

\* lines 124-128: one pass of the loop; IndexError leaves __init__
load_piece ==
    /\ ctl.pc = "loading"
    /\ LET r == place_piece(grid, grid_size, ctl.idx)
       IN  /\ grid' = r.grid
           /\ ctl' = IF r.raised THEN [ctl EXCEPT !.pc = "IndexError"]
                     ELSE [pc  |-> IF ctl.idx + 1 = Len(sides) THEN "built" ELSE "loading",
                           idx |-> ctl.idx + 1]
    /\ UNCHANGED <<pieces, sides, grid_size, stack, ret, result, log>>

\* Puzzle(pieces) is called with a list of 0..MaxCount pieces
InitBuild ==
    \E count \in 0 .. MaxCount :
      \E l \in Labels :
        /\ sides = [k \in 1 .. count |-> <<l, l, l, l>>]
        /\ pieces = input_pieces(sides)
        /\ grid_size = None
        /\ grid = <<>>
        /\ ctl = [pc |-> "new", idx |-> 0]
        /\ stack = <<>>
        /\ ret = <<>>
        /\ result = None
        /\ log = <<>>

NextBuild ==
    \/ new_puzzle
    \/ load_piece

SpecBuild == InitBuild /\ [][NextBuild]_vars

\* ------------------------------------------------- calls on a single piece
\* the piece of the test fixture: pieces[1], not in any grid
Call(op, raised) == [op |-> op, pre |-> pieces[1], raised |-> raised]

\* piece.rotate()
call_rotate ==
    /\ ctl.pc = "piece" /\ Len(log) < MaxCalls
    /\ LET r == rotate(pieces[1], FALSE)
       IN  /\ pieces' = [pieces EXCEPT ![1] = r.piece]
           /\ log' = Append(log, Call("rotate", r.raised))
    /\ UNCHANGED <<sides, grid_size, grid, ctl, stack, ret, result>>

\* piece.rotate(internal_rotation=True)
call_rotate_internal ==
    /\ ctl.pc = "piece" /\ Len(log) < MaxCalls
    /\ LET r == rotate(pieces[1], TRUE)
       IN  /\ pieces' = [pieces EXCEPT ![1] = r.piece]
           /\ log' = Append(log, Call("rotate_internal", r.raised))
    /\ UNCHANGED <<sides, grid_size, grid, ctl, stack, ret, result>>

\* piece.reset_rotations()
call_reset_rotations ==
    /\ ctl.pc = "piece" /\ Len(log) < MaxCalls
    /\ pieces' = [pieces EXCEPT ![1] = reset_rotations(pieces[1])]
    /\ log' = Append(log, Call("reset_rotations", FALSE))
    /\ UNCHANGED <<sides, grid_size, grid, ctl, stack, ret, result>>

\* piece = PuzzlePiece(1, sides)
InitPiece ==
    \E s \in AllSideTuples \cup {PIECE_SIDES} :
        /\ sides = <<s>>
        /\ pieces = input_pieces(<<s>>)
        /\ grid_size = None
        /\ grid = <<>>
        /\ ctl = [pc |-> "piece", idx |-> 0]
        /\ stack = <<>>
        /\ ret = <<>>
        /\ result = None
        /\ log = <<>>

NextPiece ==
    \/ call_rotate
    \/ call_rotate_internal
    \/ call_reset_rotations

SpecPiece == InitPiece /\ [][NextPiece]_vars

\* ------------------------------------------------------------------ solve
Next ==
    \/ solve
    \/ check_fails
    \/ check_last_cell
    \/ check_recurse
    \/ call_failed
    \/ call_succeeded
    \/ rotate_solving_piece
    \/ reset_solving_piece
    \/ swap_back
    \/ advance_swap_piece
    \/ candidates_exhausted
    \/ swap_in_candidate
    \/ solve_returns

Spec == Init /\ [][Next]_vars

\* ------------------------------------------------------------------ claims
N == grid_size * grid_size

Piece(row, column) == object(pieces, get_piece(grid, row, column))

\* the sides s after k quarter turns of rotate()
RECURSIVE Turned(_, _)
Turned(s, k) == IF k = 0 THEN s ELSE Turned(<<s[4], s[1], s[2], s[3]>>, k - 1)

IsFresh(obj) == object(pieces, obj) = PuzzlePiece(obj, sides[obj])

\* the grid and the pieces as the constructor left them
BuiltGrid == load_pieces_to_grid(Len(sides)).grid

\* C1: when solve succeeds, every pair of horizontally adjacent interior cells
\* agrees on the edge between them (left cell's right = right cell's left), and
\* so does every pair of vertically adjacent ones (upper bottom = lower top).
C1_SolvedGridMatches ==
    result = "True" =>
        \A c \in Interior(grid_size) :
            /\ c[2] + 1 < grid_size => Piece(c[1], c[2]).right = Piece(c[1], c[2] + 1).left
            /\ c[1] + 1 < grid_size => Piece(c[1], c[2]).bottom = Piece(c[1] + 1, c[2]).top

\* a 2x2 solve that succeeded after moving a piece and with a rotated piece
C1_Witness ==
    /\ result = "True" /\ grid_size = 2
    /\ grid # BuiltGrid
    /\ \E obj \in 1 .. N : object(pieces, obj).rotate_count > 0

\* Is there a way to fill cells k.. (row-major, counted from 0) with the objects
\* not in used, each in some rotation, such that every cell passes the placement
\* check, given the edges placed so far (placed[j + 1] are the sides in cell j)?
RECURSIVE CanFill(_, _, _)
CanFill(k, used, placed) ==
    IF k = N THEN TRUE
    ELSE \E obj \in (1 .. N) \ used :
           \E q \in 0 .. 3 :
             LET e    == Turned(sides[obj], q)
                 up   == IF k >= grid_size THEN placed[k - grid_size + 1][3] ELSE zero_piece.bottom
                 left == IF k % grid_size # 0 THEN placed[k][2] ELSE zero_piece.right
             IN  /\ e[1] = up
                 /\ e[4] = left
                 /\ CanFill(k + 1, used \cup {obj}, Append(placed, e))

Solvable == CanFill(0, {}, <<>>)

\* C2: a failure result proves unsolvability: when solve_piece(0, 0) returns
\* False, no assignment of the pieces to the cells with a rotation each passes
\* the placement check at every cell.
C2_FailureProvesUnsolvable == result = "False" => ~Solvable

\* C3: every solve_piece call that returns False leaves the grid as it was when
\* the call began, and every piece that then had rotation count 0 and its
\* construction-time edges has them again; after a failed solve, dump_grid is
\* what it was before the solve, every rotation count 0.
C3_FailureRestoresGrid ==
    /\ (ret # <<>> /\ ~ret[1].value) =>
          /\ grid = ret[1].entry_grid
          /\ \A obj \in ret[1].entry_fresh : IsFresh(obj)
    /\ result = "False" =>
          /\ dump_grid(grid, grid_size, pieces)
               = dump_grid(BuiltGrid, grid_size, piece_objects(sides))
          /\ \A k \in 1 .. N : dump_grid(grid, grid_size, pieces)[k][2] = 0

\* a nested call, for a cell of the second row, has just returned False
C3_Witness ==
    /\ ret # <<>> /\ ~ret[1].value
    /\ ret[1].row = 1
    /\ stack # <<>>

\* Does every input piece sit in exactly one interior cell of g, and nothing
\* else in the interior? The grid_size * grid_size interior cells hold exactly
\* the N objects 1..N, so no object is held twice and none is missing.
InteriorIsPermutation(g) ==
    {get_piece(g, row, column) : row \in 0 .. grid_size - 1, column \in 0 .. grid_size - 1}
        = 1 .. N

\* C4: at every step of solve each input piece occupies exactly one interior
\* cell and each interior cell holds an input piece; and one more swap_pieces
\* call on interior coordinates, made when solve is not running, keeps it so.
C4_PieceSetPreserved ==
    ctl.pc \in {"built", "solving", "done"} =>
        /\ InteriorIsPermutation(grid)
        /\ stack = <<>> =>
             \A a \in Interior(grid_size) : \A b \in Interior(grid_size) :
                InteriorIsPermutation(swap_pieces(grid, a[1], a[2], b[1], b[2]))

\* a candidate from another cell has been swapped in and is being probed
C4_Witness ==
    /\ stack # <<>>
    /\ Top.pc = "check"
    /\ Top.next_swap_piece # <<Top.row, Top.col>>
    /\ grid # Top.entry_grid

IsSquare(c) == int_sqrt(c) * int_sqrt(c) = c

Border(g) == {c \in Cells(g) : c[1] \in {0, Len(g) - 1} \/ c[2] \in {0, Len(g) - 1}}

\* C5: constructing a Puzzle from a piece list whose length is not a perfect
\* square ends with InvalidPieceCount and leaves no grid.
ConstructionEnded == ctl.pc \notin {"new", "loading"}

C5_NonSquareRejected ==
    (~IsSquare(Len(sides)) /\ ConstructionEnded) =>
        /\ ctl.pc = "InvalidPieceCount"
        /\ grid = <<>>

\* C6: constructing a Puzzle from n*n pieces (n >= 1) gives grid_size n, with
\* pieces[i] at interior row i div n, column i mod n, each input piece once in
\* the interior, and zero_piece in every cell of the border ring.
C6_SquareLoadsRowMajor ==
    (ctl.pc = "built" /\ IsSquare(Len(sides)) /\ Len(sides) >= 1) =>
        /\ grid_size * grid_size = Len(sides)
        /\ Len(grid) = grid_size + 2
        /\ \A i \in 0 .. Len(sides) - 1 :
              get_piece(grid, i \div grid_size, i % grid_size) = i + 1
        /\ \A i \in 1 .. Len(sides) :
              Cardinality({c \in Interior(grid_size) : get_piece(grid, c[1], c[2]) = i}) = 1
        /\ \A c \in Border(grid) : cell(grid, c[1], c[2]) = 0
        /\ grid = load_pieces_to_grid(Len(sides)).grid

\* a 3x3 grid has been built
C6_Witness == ctl.pc = "built" /\ Len(sides) = 9

\* C7 as stated: a 1x1 puzzle always solves, whatever the piece's edges.
C7_OneByOneAlwaysSolves == (grid_size = 1 /\ ctl.pc = "done") => result = "True"

\* C7, amended: a 1x1 puzzle solves exactly when some orientation of the piece
\* has top and left both equal to the zero_piece's label 0; otherwise solve
\* returns failure.
C7_OneByOneSolvesIffRimFits ==
    (grid_size = 1 /\ ctl.pc = "done") =>
        /\ result \in {"True", "False"}
        /\ result = "True" <=>
             \E q \in 0 .. 3 : Turned(sides[1], q)[1] = 0 /\ Turned(sides[1], q)[4] = 0

\* a 1x1 puzzle solved with its piece rotated
C7_Witness ==
    /\ grid_size = 1 /\ result = "True"
    /\ object(pieces, 1).rotate_count > 0

\* the piece after the k-th logged call
After(k) == IF k < Len(log) THEN log[k + 1].pre ELSE pieces[1]

Counted(k) == \A j \in 1 .. k : log[j].op = "rotate"

\* C8: from a fresh piece the first three rotate() calls succeed and take
\* rotations 0 -> 1 -> 2 -> 3; any rotate() below 3 adds exactly 1; a rotate()
\* at 3 raises MaxRotationsReached and leaves edges and count unchanged.
C8_CountedRotationCapped ==
    ctl.pc = "piece" =>
        /\ \A k \in 1 .. Len(log) :
              log[k].op = "rotate" =>
                 IF log[k].pre.rotate_count = MAX_ROTATIONS
                 THEN log[k].raised /\ After(k) = log[k].pre
                 ELSE ~log[k].raised /\ After(k).rotate_count = log[k].pre.rotate_count + 1
        /\ \A k \in 1 .. Len(log) :
              (k <= MAX_ROTATIONS /\ Counted(k)) => ~log[k].raised /\ After(k).rotate_count = k

\* four rotate() calls on a fresh piece with distinguishable edges: the fourth raised
C8_Witness ==
    /\ ctl.pc = "piece" /\ Len(log) = 4 /\ Counted(4)
    /\ log[4].raised
    /\ sides[1] = PIECE_SIDES

\* C9: with only counted rotate() calls and resets made on a piece,
\* reset_rotations leaves the construction-time edges and count 0, however
\* many rotate-then-reset rounds came before; and reset_rotations at count 0
\* changes nothing.
C9_ResetRestores ==
    ctl.pc = "piece" =>
        \A k \in 1 .. Len(log) :
           log[k].op = "reset_rotations" =>
              /\ (\A j \in 1 .. k : log[j].op # "rotate_internal") =>
                    After(k) = PuzzlePiece(1, sides[1])
              /\ log[k].pre.rotate_count = 0 => After(k) = log[k].pre

\* two rounds (three rotations, then one) each ended by a reset
C9_Witness ==
    /\ ctl.pc = "piece" /\ Len(log) = 6
    /\ sides[1] = PIECE_SIDES
    /\ Counted(3) /\ log[4].op = "reset_rotations"
    /\ log[5].op = "rotate" /\ log[6].op = "reset_rotations"

Succeeded(k) == log[k].op \in {"rotate", "rotate_internal"} /\ ~log[k].raised

\* C10: a rotation maps (top, right, bottom, left) to (left, top, right,
\* bottom); four consecutive forced rotations return the edges to where they
\* were; a forced rotation never raises and never changes the rotation count.
C10_RotationIsFourCycle ==
    ctl.pc = "piece" =>
        /\ \A k \in 1 .. Len(log) :
              Succeeded(k) =>
                 Edges(After(k)) = <<log[k].pre.left, log[k].pre.top,
                                     log[k].pre.right, log[k].pre.bottom>>
        /\ \A k \in 1 .. Len(log) :
              log[k].op = "rotate_internal" =>
                 ~log[k].raised /\ After(k).rotate_count = log[k].pre.rotate_count
        /\ \A k \in 4 .. Len(log) :
              (\A j \in k - 3 .. k : log[j].op = "rotate_internal") =>
                 Edges(After(k)) = Edges(log[k - 3].pre)

\* four forced rotations in a row, made on a piece already at the cap
C10_Witness ==
    /\ ctl.pc = "piece" /\ Len(log) = 7
    /\ sides[1] = PIECE_SIDES
    /\ Counted(3)
    /\ \A j \in 4 .. 7 : log[j].op = "rotate_internal"

\* C11: MaxRotationsReached is never raised during solve: whenever solve_piece
\* is about to call rotate() the piece it calls it on has rotation count at
\* most 2, also after backtracking and after a swap brought in another piece.
C11_SolveNeverHitsRotationCap ==
    /\ result # "MaxRotationsReached"
    /\ \A k \in 1 .. Len(stack) :
          stack[k].pc = "rotate" =>
             object(pieces, stack[k].solving_piece).rotate_count < MAX_ROTATIONS

\* the third rotate() of a swapped-in candidate in a nested call is about to be made
C11_Witness ==
    /\ Len(stack) >= 2
    /\ Top.pc = "rotate"
    /\ Top.next_swap_piece # <<Top.row, Top.col>>
    /\ object(pieces, Top.solving_piece).rotate_count = MAX_ROTATIONS - 1

\* the occupant of the k-th interior cell of g, the cells counted row by row from 1
RowMajorCell(g, k) == get_piece(g, (k - 1) \div grid_size, (k - 1) % grid_size)

\* the occupants of the interior cells of g, row by row
RowMajor(g) == [k \in 1 .. N |-> RowMajorCell(g, k)]

\* C12: a new iterator over a grid of side n >= 1 yields exactly n*n pieces, the
\* occupants of the interior cells in row-major order from (0, 0), each once and
\* never the border sentinel, and dump_grid has one <id, rotation count> entry
\* per piece in that order.
C12_IterationIsRowMajor ==
    /\ Len(iterate(grid, grid_size)) = N
    /\ iterate(grid, grid_size) = RowMajor(grid)
    /\ \A k \in 1 .. N : RowMajorCell(grid, k) # 0
    /\ \A j, k \in 1 .. N : RowMajorCell(grid, j) = RowMajorCell(grid, k) => j = k
    /\ dump_grid(grid, grid_size, pieces) =
          [k \in 1 .. N |-> <<object(pieces, RowMajorCell(grid, k)).id,
                              object(pieces, RowMajorCell(grid, k)).rotate_count>>]

\* a solved 2x2 grid whose pieces were moved and turned is iterated
C12_Witness ==
    /\ result = "True"
    /\ grid_size = MaxN
    /\ iterate(grid, grid_size) # <<1, 2, 3, 4>>
    /\ \E k \in 1 .. N : dump_grid(grid, grid_size, pieces)[k][2] > 0

\* C13: rotation is exhausted before identity: a frame gives up its candidate
\* (resets it and goes on to swap in another piece) only after probing all four
\* of its orientations, also when an orientation passed the placement check and
\* the nested call for the next cell failed.
C13_OrientationsExhaustedFirst ==
    \A k \in 1 .. Len(stack) :
       stack[k].pc = "reset" => stack[k].idx = FULL_TURN - 1

\* the number, counted row by row from 1, of the interior cell (row, column)
CellNumber(row, column) == row * grid_size + column + 1

\* C14: within one solve_piece(row, col) call the pieces probed at (row, col) are,
\* in order, the pieces that at call entry occupied (row, col) and then each
\* later cell in row-major order, each at most once; while the call probes a
\* candidate the grid differs from the call's entry arrangement by the single
\* swap of (row, col) with that candidate's entry cell, and between candidates
\* it is the entry arrangement again.
C14_CandidateOrderSingleSwap ==
    \A k \in 1 .. Len(stack) :
       LET f == stack[k]
       IN  /\ \A j \in 1 .. Len(f.probed) :
                 f.probed[j] = RowMajorCell(f.entry_grid, CellNumber(f.row, f.col) + j - 1)
           /\ \A i, j \in 1 .. Len(f.probed) : f.probed[i] = f.probed[j] => i = j
           /\ f.pc \in {"check", "call", "rotate", "reset", "unswap"} =>
                 /\ f.solving_piece = f.probed[Len(f.probed)]
                 /\ f.solving_piece = get_piece(grid, f.row, f.col)
                 /\ CellNumber(f.next_swap_piece[1], f.next_swap_piece[2])
                       = CellNumber(f.row, f.col) + Len(f.probed) - 1
           /\ (k = Len(stack) /\ f.pc \in {"check", "rotate", "reset", "unswap"}) =>
                 grid = swap_pieces(f.entry_grid, f.row, f.col,
                                    f.next_swap_piece[1], f.next_swap_piece[2])
           /\ (k = Len(stack) /\ f.pc \in {"advance", "swap"}) => grid = f.entry_grid

\* a nested call probes its third candidate, swapped in from two cells further on
C14_Witness ==
    /\ Len(stack) >= 2
    /\ Top.pc = "check"
    /\ Len(Top.probed) = 3
    /\ grid # Top.entry_grid

\* a solve_piece call has returned True and solve has not yet returned
SuccessPending == ctl.pc = "solving" /\ ret # <<>> /\ ret[1].value

\* C15: success is committed without further mutation: once the placement check
\* has passed at the last cell, every step until solve returns is the immediate
\* return of True by the enclosing frame (or by solve), and no step rotates,
\* resets or swaps, so the grid and the pieces at return are those of that check.
C15_SuccessIsCommitted ==
    [][SuccessPending =>
          /\ grid' = grid
          /\ pieces' = pieces
          /\ ret' # <<>> /\ ret'[1].value
          /\ IF stack = <<>> THEN result' = "True" /\ stack' = <<>>
                             ELSE stack' = Caller /\ result' = result]_vars

\* True is on its way up from the last cell of a 2x2 grid through three
\* enclosing frames, one of them holding a turned piece
C15_Witness ==
    /\ SuccessPending
    /\ Len(stack) = MaxN * MaxN - 1
    /\ \E k \in 1 .. Len(stack) : object(pieces, stack[k].solving_piece).rotate_count > 0

\* C16: the sentinel is never touched: at every point of solve every border cell
\* holds the sentinel, the sentinel keeps edges 0 and rotation count 0, and the
\* piece a frame rotates or resets is not the sentinel and the coordinates it
\* swaps are interior ones.
C16_SentinelUntouched ==
    /\ \A c \in Border(grid) : cell(grid, c[1], c[2]) = 0
    /\ object(pieces, 0) = zero_piece
    /\ \A k \in 1 .. Len(stack) :
          /\ stack[k].solving_piece # 0
          /\ <<stack[k].row, stack[k].col>> \in Interior(grid_size)
          /\ stack[k].next_swap_piece \in Interior(grid_size)

\* a frame for cell (0, 1) of a 2x2 grid, on the top and right rim, has rotated
\* the candidate it swapped in and is about to reset it
C16_Witness ==
    /\ grid_size = 2
    /\ Len(stack) = 2
    /\ Top.pc = "reset"
    /\ Len(Top.probed) > 1
    /\ object(pieces, Top.solving_piece).rotate_count > 0

\* C17: rotation bookkeeping is faithful: between piece operations (reset_rotations
\* being one step) every piece's rotation count is in 0..3 and its current edges
\* are its construction-time edges turned clockwise by that many quarter turns,
\* so the <id, rotation count> pairs of dump_grid describe the orientations.
C17_RotationCountDescribesEdges ==
    \A obj \in 0 .. N :
       /\ object(pieces, obj).rotate_count \in 0 .. MAX_ROTATIONS
       /\ object(pieces, obj).id = obj
       /\ Edges(object(pieces, obj)) =
             Turned(Edges(piece_objects(sides)[obj + 1]), object(pieces, obj).rotate_count)

\* a frame has just reset a piece it had turned three times, while an enclosing
\* frame holds a piece turned three times whose edges differ from its first ones
C17_Witness ==
    /\ Running /\ Top.pc = "unswap" /\ Top.idx = MAX_ROTATIONS
    /\ object(pieces, Top.solving_piece).rotate_count = 0
    /\ \E obj \in 1 .. N :
          /\ object(pieces, obj).rotate_count = MAX_ROTATIONS
          /\ Edges(object(pieces, obj)) # sides[obj]

\* C18: the coordinate advance that precedes a recursive call never runs off the
\* grid: a frame that advances in order to recurse is not at cell (n-1, n-1) and
\* its advance does not raise, so EndOfGridReached comes only from the advance
\* to the next swap candidate, where it is caught, and never leaves solve.
C18_RecursionAdvanceStaysInGrid ==
    /\ result # "EndOfGridReached"
    /\ \A k \in 1 .. Len(stack) :
          LET f == stack[k]
              recursing ==
                 \/ f.pc = "call"
                 \/ /\ k = Len(stack) /\ f.pc = "check"
                    /\ check_piece_placement(grid, pieces, f.row, f.col)
                    /\ ~(f.row + 1 = grid_size /\ f.col + 1 = grid_size)
          IN  recursing =>
                 /\ <<f.row, f.col>> # <<grid_size - 1, grid_size - 1>>
                 /\ ~next_piece_coordinate(grid_size, f.row, f.col).raised
                 /\ next_piece_coordinate(grid_size, f.row, f.col).coordinate
                       \in Interior(grid_size)

\* the frame of the last cell of a 2x2 grid has seen EndOfGridReached from the
\* candidate advance and returned False to the frame that recursed from (1, 0)
C18_Witness ==
    /\ grid_size = 2
    /\ Len(stack) = 3 /\ Top.pc = "call"
    /\ ret # <<>> /\ ~ret[1].value

\* C19: recursion is bounded: the solve_piece stack holds at most n*n frames,
\* the k-th frame from the bottom (counted from 0) works on the k-th cell in
\* row-major order, and so each frame's cell is the row-major successor of its
\* caller's cell.
C19_StackFollowsRowMajor ==
    /\ Len(stack) <= N
    /\ \A k \in 1 .. Len(stack) :
          /\ stack[k].row = (k - 1) \div grid_size
          /\ stack[k].col = (k - 1) % grid_size
    /\ \A k \in 1 .. Len(stack) - 1 :
          /\ ~next_piece_coordinate(grid_size, stack[k].row, stack[k].col).raised
          /\ <<stack[k + 1].row, stack[k + 1].col>> =
                next_piece_coordinate(grid_size, stack[k].row, stack[k].col).coordinate

\* the stack is n*n deep on a 2x2 grid, after frames below have swapped candidates in
C19_Witness ==
    /\ grid_size = 2
    /\ Len(stack) = 4
    /\ \E k \in 1 .. 3 : Len(stack[k].probed) > 1

\* the interior cells that precede (row, column) in row-major order
Preceding(row, column) ==
    {c \in Interior(grid_size) : CellNumber(c[1], c[2]) < CellNumber(row, column)}

\* C20: the committed prefix is frozen: while a solve_piece(row, col) call or a
\* call nested in it is running, no step changes which piece occupies a cell
\* preceding (row, col), nor that piece's edges or rotation count, so these
\* cells hold what they held at the call's entry; a step that changes a piece
\* changes only the piece in the cell the running frame is solving.
C20_CommittedPrefixFrozen ==
    [][/\ \A k \in 1 .. Len(stack) :
             \A c \in Preceding(stack[k].row, stack[k].col) :
                /\ get_piece(grid, c[1], c[2]) = get_piece(stack[k].entry_grid, c[1], c[2])
                /\ get_piece(grid', c[1], c[2]) = get_piece(grid, c[1], c[2])
                /\ object(pieces', get_piece(grid, c[1], c[2]))
                      = object(pieces, get_piece(grid, c[1], c[2]))
       /\ \A obj \in 0 .. N :
             object(pieces', obj) # object(pieces, obj) =>
                Running /\ obj = get_piece(grid, Top.row, Top.col)
       /\ \A c \in Cells(grid) :
             cell(grid', c[1], c[2]) # cell(grid, c[1], c[2]) =>
                /\ Running
                /\ <<c[1] - 1, c[2] - 1>> \in Interior(grid_size)
                /\ <<c[1] - 1, c[2] - 1>> \notin Preceding(Top.row, Top.col)]_vars

\* the frame of the last cell of a 2x2 grid is about to rotate its piece while
\* the three cells before it hold moved and turned pieces
C20_Witness ==
    /\ grid_size = 2
    /\ Len(stack) = 4 /\ Top.pc = "rotate"
    /\ \E k \in 1 .. 3 : Len(stack[k].probed) > 1
    /\ \E k \in 1 .. 3 : object(pieces, stack[k].solving_piece).rotate_count > 0

\* ------------------------------------------------------------- termination
\* solve runs in one thread, and the interpreter always executes the next
\* statement of the running frame: a step that can be taken is eventually taken
SpecFair == Init /\ [][Next]_vars /\ WF_vars(Next)

\* C21: solve always terminates: for every grid built from n*n pieces and every
\* choice of edge labels the search eventually returns success or failure; no
\* frame loops forever over rotations or swap candidates.
C21_SolveTerminates == <>(ctl.pc = "done" /\ result \in {"True", "False"})

\* solve has returned False on a 2x2 grid after frames ran out of swap
\* candidates, while one piece's edges are marked
C21_Witness ==
    /\ ctl.pc = "done" /\ stack = <<>>
    /\ result = "False"
    /\ grid_size = MaxN
    /\ \E obj \in 1 .. N : sides[obj] # <<0, 0, 0, 0>>

====
